---- MODULE Spec2Model ----
(***************************************************************************)
(* A model of PyOME (decarv/pyome): the order entity (order.py), the order *)
(* book with its two heapq priority queues (book.py) and the command       *)
(* layer of the matching engine (engine.py).                                *)
(*                                                                         *)
(* Python objects are modelled by handles: orders[h] is the Order object   *)
(* with handle h, and the queues and orders_map hold handles, so that two  *)
(* references to one object see the same mutable fields.                   *)
(***************************************************************************)
EXTENDS Integers, Sequences, FiniteSets, TLC

VARIABLES uid, orders_map, orders, buy_queue, sell_queue, last

vars == <<uid, orders_map, orders, buy_queue, sell_queue, last>>

\* ------------------------------------------------------------------ bounds
\* Number of Order objects a run of Spec may construct.
MaxOrders == 3
\* Number of Order objects a run of SpecBids may construct.
MaxBidOrders == 7
\* Limit prices are 1..MaxPrice.
MaxPrice == 2
\* Command quantities are -1..MaxQty.
MaxQty == 2

\* float("inf"), the default price of a market order.
Inf == 1000

Sides == {"BUY", "SELL"}
Prices == 1..MaxPrice
Quantities == (-1)..MaxQty

\* ------------------------------------------------------------- order.py
\* Order.__init__
Order(order_id, order_type, order_side, quantity, price) ==
  [order_id |-> order_id, order_type |-> order_type, order_side |-> order_side,
   quantity |-> quantity, price |-> price, stock |-> "STOCK"]

\* Order.__lt__ raises when the two orders are of different sides.
LtRaises(a, b) == a.order_side # b.order_side

\* Mutant of Lt: the lower price ranks first on the buy side as well.
LtLowestFirst(a, b) ==
  IF a.price = b.price THEN a.order_id < b.order_id ELSE a.price < b.price

\* Order.__lt__ on two orders of one side.
Lt(a, b) ==
  IF a.price = b.price THEN a.order_id < b.order_id
  ELSE IF a.order_side = "SELL" THEN a.price < b.price
  ELSE a.price > b.price

\* ---------------------------------------------------------------- heapq
\* Queues are sequences of handles, index 1 being Python's index 0; os is
\* the orders store the comparisons read.

\* Python's position p (0-based) of heap q.
At(q, p) == q[p + 1]

Put(q, p, h) == [q EXCEPT ![p + 1] = h]

\* heapq._siftdown(heap, startpos, pos) with newitem already taken out.
RECURSIVE SiftDownLoop(_, _, _, _, _)
SiftDownLoop(os, q, startpos, pos, newitem) ==
  IF pos > startpos
  THEN LET parentpos == (pos - 1) \div 2
           parent == At(q, parentpos)
       IN IF Lt(os[newitem], os[parent])
          THEN SiftDownLoop(os, Put(q, pos, parent), startpos, parentpos, newitem)
          ELSE Put(q, pos, newitem)
  ELSE Put(q, pos, newitem)

SiftDown(os, q, startpos, pos) == SiftDownLoop(os, q, startpos, pos, At(q, pos))

\* heapq._siftup(heap, pos): bubble the smaller child up to a leaf, then
\* sift the item down from there.
RECURSIVE SiftUpLoop(_, _, _, _, _)
SiftUpLoop(os, q, startpos, pos, newitem) ==
  LET endpos == Len(q)
      childpos == 2 * pos + 1
  IN IF childpos < endpos
     THEN LET rightpos == childpos + 1
              c == IF rightpos < endpos /\ ~Lt(os[At(q, childpos)], os[At(q, rightpos)])
                   THEN rightpos ELSE childpos
          IN SiftUpLoop(os, Put(q, pos, At(q, c)), startpos, c, newitem)
     ELSE SiftDownLoop(os, Put(q, pos, newitem), startpos, pos, newitem)

SiftUp(os, q, pos) == SiftUpLoop(os, q, pos, pos, At(q, pos))

\* heapq.heappush(heap, item)
HeapPush(os, q, h) == SiftDown(os, Append(q, h), 0, Len(q))

\* heapq.heappop(heap): the heap left once its first item is taken out.
HeapPop(os, q) ==
  LET lastelt == q[Len(q)]
      rest == SubSeq(q, 1, Len(q) - 1)
  IN IF rest = <<>> THEN rest ELSE SiftUp(os, Put(rest, 0, lastelt), 0)

\* Whether a comparison of heapq._siftdown raises (Order.__lt__ on orders
\* of different sides); the comparisons are those of SiftDownLoop.
RECURSIVE SiftDownRaises(_, _, _, _, _)
SiftDownRaises(os, q, startpos, pos, newitem) ==
  IF pos > startpos
  THEN LET parentpos == (pos - 1) \div 2
           parent == At(q, parentpos)
       IN \/ LtRaises(os[newitem], os[parent])
          \/ /\ Lt(os[newitem], os[parent])
             /\ SiftDownRaises(os, Put(q, pos, parent), startpos, parentpos, newitem)
  ELSE FALSE

\* Whether a comparison of heapq._siftup raises; the comparisons are those
\* of SiftUpLoop.
RECURSIVE SiftUpRaises(_, _, _, _, _)
SiftUpRaises(os, q, startpos, pos, newitem) ==
  LET endpos == Len(q)
      childpos == 2 * pos + 1
  IN IF childpos < endpos
     THEN LET rightpos == childpos + 1
              c == IF rightpos < endpos /\ ~Lt(os[At(q, childpos)], os[At(q, rightpos)])
                   THEN rightpos ELSE childpos
          IN \/ rightpos < endpos /\ LtRaises(os[At(q, childpos)], os[At(q, rightpos)])
             \/ SiftUpRaises(os, Put(q, pos, At(q, c)), startpos, c, newitem)
     ELSE SiftDownRaises(os, Put(q, pos, newitem), startpos, pos, newitem)

\* heapq.heappush(heap, item) raises.
HeapPushRaises(os, q, h) == SiftDownRaises(os, Append(q, h), 0, Len(q), h)

\* heapq.heappop(heap) raises.
HeapPopRaises(os, q) ==
  LET lastelt == q[Len(q)]
      rest == SubSeq(q, 1, Len(q) - 1)
  IN rest # <<>> /\ SiftUpRaises(os, Put(rest, 0, lastelt), 0, 0, lastelt)

\* One of n heappops in a row on q raises.
RECURSIVE PopsRaise(_, _, _)
PopsRaise(os, q, n) ==
  IF n = 0 THEN FALSE
  ELSE HeapPopRaises(os, q) \/ PopsRaise(os, HeapPop(os, q), n - 1)

\* -------------------------------------------------------------- book.py
\* trades = [] at the start of a matching call; skipped lists the deleted
\* orders (quantity 0) the call pops without a trade.
NoTrades == [trades |-> <<>>, skipped |-> <<>>]

\* A trade is the tuple (quantity, price) the code appends to trades. The
\* record also keeps which resting order it was made against and the
\* quantities of the incoming order h and the resting order top before
\* (os0) and after (os1) the code's decrements.
Trade(quantity, price, h, top, os0, os1) ==
  [quantity |-> quantity, price |-> price, resting |-> top,
   inc0 |-> os0[h].quantity, inc1 |-> os1[h].quantity,
   rest0 |-> os0[top].quantity, rest1 |-> os1[top].quantity]

\* Mutant of Compare: a buy crosses only a strictly lower ask.
CompareStrictBuy(side, x, y) == IF side = "BUY" THEN x > y ELSE x <= y

\* Mutant of Compare: a sell crosses only a strictly higher bid.
CompareStrictSell(side, x, y) == IF side = "BUY" THEN x >= y ELSE x < y

\* compare(x, y) of add_limit_order: does a limit at price x cross y.
Compare(side, x, y) == IF side = "BUY" THEN x >= y ELSE x <= y

\* Mutant of LimitTakeTop: the incoming order's quantity is not decremented.
LimitTakeTopKeepsQuantity(os, h, top, acc) ==
  IF os[top].quantity > 0
  THEN LET os1 == [os EXCEPT ![top].quantity = 0]
       IN [os |-> os1,
           trades |-> Append(acc.trades, Trade(os[top].quantity, os[top].price, h, top, os, os1)),
           skipped |-> acc.skipped]
  ELSE [os |-> os, trades |-> acc.trades, skipped |-> Append(acc.skipped, top)]

\* Mutant of LimitTakeTop: the trade is recorded at the incoming order's price.
LimitTakeTopAggressorPrice(os, h, top, acc) ==
  IF os[top].quantity > 0
  THEN LET os1 == [os EXCEPT ![h].quantity = os[h].quantity - os[top].quantity,
                             ![top].quantity = 0]
       IN [os |-> os1,
           trades |-> Append(acc.trades, Trade(os[top].quantity, os[h].price, h, top, os, os1)),
           skipped |-> acc.skipped]
  ELSE [os |-> os, trades |-> acc.trades, skipped |-> Append(acc.skipped, top)]

\* Branch order.quantity >= top_order.quantity of add_limit_order, up to
\* the heappop: a top order with quantity > 0 is filled completely, a
\* deleted one (quantity 0) is ignored.
LimitTakeTop(os, h, top, acc) ==
  IF os[top].quantity > 0
  THEN LET os1 == [os EXCEPT ![h].quantity = os[h].quantity - os[top].quantity,
                             ![top].quantity = 0]
       IN [os |-> os1,
           trades |-> Append(acc.trades, Trade(os[top].quantity, os[top].price, h, top, os, os1)),
           skipped |-> acc.skipped]
  ELSE [os |-> os, trades |-> acc.trades, skipped |-> Append(acc.skipped, top)]

\* Mutant of LimitTakePart: the top order is taken whole although the
\* incoming order is smaller.
LimitTakePartWhole(os, h, top, acc) ==
  LET os1 == [os EXCEPT ![h].quantity = os[h].quantity - os[top].quantity,
                        ![top].quantity = 0]
  IN [os |-> os1,
      trades |-> Append(acc.trades, Trade(os[top].quantity, os[top].price, h, top, os, os1)),
      skipped |-> acc.skipped]

\* Branch order.quantity < top_order.quantity of add_limit_order: the
\* incoming order is filled completely out of the top order.
LimitTakePart(os, h, top, acc) ==
  LET osT == [os EXCEPT ![top].quantity = os[top].quantity - os[h].quantity]
      os1 == [osT EXCEPT ![h].quantity = 0]
  IN [os |-> os1,
      trades |-> Append(acc.trades, Trade(osT[h].quantity, osT[top].price, h, top, os, os1)),
      skipped |-> acc.skipped]

\* Mutant of LimitLoop: a deleted top order is popped before its price is
\* compared.
RECURSIVE LimitLoopPopsDeletedFirst(_, _, _, _, _)
LimitLoopPopsDeletedFirst(os, queue, h, top, acc) ==
  IF queue # <<>> /\ os[h].quantity > 0
     /\ (os[top].quantity = 0 \/ Compare(os[h].order_side, os[h].price, os[top].price))
  THEN IF os[h].quantity >= os[top].quantity
       THEN LET m == LimitTakeTop(os, h, top, acc)
                q2 == HeapPop(m.os, queue)
                top2 == IF q2 # <<>> THEN q2[1] ELSE top
            IN LimitLoopPopsDeletedFirst(m.os, q2, h, top2, m)
       ELSE LET m == LimitTakePart(os, h, top, acc)
            IN LimitLoopPopsDeletedFirst(m.os, queue, h, top, m)
  ELSE [os |-> os, queue |-> queue, trades |-> acc.trades, skipped |-> acc.skipped]

\* Mutant of LimitLoop: a top order that has just been filled is not
\* popped in that iteration; it is left for the next one to ignore.
RECURSIVE LimitLoopPopsLate(_, _, _, _, _)
LimitLoopPopsLate(os, queue, h, top, acc) ==
  IF queue # <<>> /\ os[h].quantity > 0
     /\ Compare(os[h].order_side, os[h].price, os[top].price)
  THEN IF os[h].quantity >= os[top].quantity
       THEN LET m == LimitTakeTop(os, h, top, acc)
                q2 == IF os[top].quantity > 0 THEN queue ELSE HeapPop(m.os, queue)
                top2 == IF q2 # <<>> THEN q2[1] ELSE top
            IN LimitLoopPopsLate(m.os, q2, h, top2, m)
       ELSE LET m == LimitTakePart(os, h, top, acc)
            IN LimitLoopPopsLate(m.os, queue, h, top, m)
  ELSE [os |-> os, queue |-> queue, trades |-> acc.trades, skipped |-> acc.skipped]

\* The while loop of add_limit_order; top is the code's top_order.
RECURSIVE LimitLoop(_, _, _, _, _)
LimitLoop(os, queue, h, top, acc) ==
  IF queue # <<>> /\ os[h].quantity > 0
     /\ Compare(os[h].order_side, os[h].price, os[top].price)
  THEN IF os[h].quantity >= os[top].quantity
       THEN LET m == LimitTakeTop(os, h, top, acc)
                q2 == HeapPop(m.os, queue)
                top2 == IF q2 # <<>> THEN q2[1] ELSE top
            IN LimitLoop(m.os, q2, h, top2, m)
       ELSE LET m == LimitTakePart(os, h, top, acc)
            IN LimitLoop(m.os, queue, h, top, m)
  ELSE [os |-> os, queue |-> queue, trades |-> acc.trades, skipped |-> acc.skipped]

\* Mutant of AddLimitOrder: what is left of the order is pushed onto the
\* queue it was matched against.
AddLimitOrderWrongQueue(b, h) ==
  LET buying == b.os[h].order_side = "BUY"
      queue == IF buying THEN b.sell_queue ELSE b.buy_queue
      order_queue == IF buying THEN b.buy_queue ELSE b.sell_queue
      m == IF queue # <<>>
           THEN LimitLoop(b.os, queue, h, queue[1], NoTrades)
           ELSE [os |-> b.os, queue |-> queue, trades |-> <<>>, skipped |-> <<>>]
      oq == IF m.os[h].quantity > 0 THEN HeapPush(m.os, m.queue, h) ELSE m.queue
  IN [os |-> m.os,
      buy_queue |-> IF buying THEN order_queue ELSE oq,
      sell_queue |-> IF buying THEN oq ELSE order_queue,
      trades |-> m.trades, skipped |-> m.skipped]

\* Mutant of AddLimitOrder: the order is pushed whatever quantity it has left.
AddLimitOrderAlwaysRests(b, h) ==
  LET buying == b.os[h].order_side = "BUY"
      queue == IF buying THEN b.sell_queue ELSE b.buy_queue
      order_queue == IF buying THEN b.buy_queue ELSE b.sell_queue
      m == IF queue # <<>>
           THEN LimitLoop(b.os, queue, h, queue[1], NoTrades)
           ELSE [os |-> b.os, queue |-> queue, trades |-> <<>>, skipped |-> <<>>]
      oq == HeapPush(m.os, order_queue, h)
  IN [os |-> m.os,
      buy_queue |-> IF buying THEN oq ELSE m.queue,
      sell_queue |-> IF buying THEN m.queue ELSE oq,
      trades |-> m.trades, skipped |-> m.skipped]

\* Book.add_limit_order(order): b is the book [os, buy_queue, sell_queue],
\* h the handle of the order. Gives the book afterwards and the trades.
AddLimitOrder(b, h) ==
  LET buying == b.os[h].order_side = "BUY"
      queue == IF buying THEN b.sell_queue ELSE b.buy_queue
      order_queue == IF buying THEN b.buy_queue ELSE b.sell_queue
      m == IF queue # <<>>
           THEN LimitLoop(b.os, queue, h, queue[1], NoTrades)
           ELSE [os |-> b.os, queue |-> queue, trades |-> <<>>, skipped |-> <<>>]
      oq == IF m.os[h].quantity > 0 THEN HeapPush(m.os, order_queue, h) ELSE order_queue
  IN [os |-> m.os,
      buy_queue |-> IF buying THEN oq ELSE m.queue,
      sell_queue |-> IF buying THEN m.queue ELSE oq,
      trades |-> m.trades, skipped |-> m.skipped]

\* Mutant of MarketTakeTop: a deleted top order is not ignored.
MarketTakeTopTradesDeleted(os, h, top, acc) ==
  LET os1 == [os EXCEPT ![h].quantity = os[h].quantity - os[top].quantity,
                        ![top].quantity = 0]
  IN [os |-> os1,
      trades |-> Append(acc.trades, Trade(os[top].quantity, os[top].price, h, top, os, os1)),
      skipped |-> acc.skipped]

\* Branch order.quantity >= top_order.quantity of add_market_order (the
\* code repeats add_limit_order's).
MarketTakeTop(os, h, top, acc) ==
  IF os[top].quantity > 0
  THEN LET os1 == [os EXCEPT ![h].quantity = os[h].quantity - os[top].quantity,
                             ![top].quantity = 0]
       IN [os |-> os1,
           trades |-> Append(acc.trades, Trade(os[top].quantity, os[top].price, h, top, os, os1)),
           skipped |-> acc.skipped]
  ELSE [os |-> os, trades |-> acc.trades, skipped |-> Append(acc.skipped, top)]

\* Branch order.quantity < top_order.quantity of add_market_order.
MarketTakePart(os, h, top, acc) ==
  LET osT == [os EXCEPT ![top].quantity = os[top].quantity - os[h].quantity]
      os1 == [osT EXCEPT ![h].quantity = 0]
  IN [os |-> os1,
      trades |-> Append(acc.trades, Trade(osT[h].quantity, osT[top].price, h, top, os, os1)),
      skipped |-> acc.skipped]

\* The while loop of add_market_order: no price test.
RECURSIVE MarketLoop(_, _, _, _, _)
MarketLoop(os, queue, h, top, acc) ==
  IF queue # <<>> /\ os[h].quantity > 0
  THEN IF os[h].quantity >= os[top].quantity
       THEN LET m == MarketTakeTop(os, h, top, acc)
                q2 == HeapPop(m.os, queue)
                top2 == IF q2 # <<>> THEN q2[1] ELSE top
            IN MarketLoop(m.os, q2, h, top2, m)
       ELSE LET m == MarketTakePart(os, h, top, acc)
            IN MarketLoop(m.os, queue, h, top, m)
  ELSE [os |-> os, queue |-> queue, trades |-> acc.trades, skipped |-> acc.skipped]

\* Mutant of AddMarketOrder: what is left of the order is put in its queue.
AddMarketOrderRests(b, h) ==
  LET buying == b.os[h].order_side = "BUY"
      queue == IF buying THEN b.sell_queue ELSE b.buy_queue
      order_queue == IF buying THEN b.buy_queue ELSE b.sell_queue
      m == IF queue # <<>>
           THEN MarketLoop(b.os, queue, h, queue[1], NoTrades)
           ELSE [os |-> b.os, queue |-> queue, trades |-> <<>>, skipped |-> <<>>]
      oq == IF m.os[h].quantity > 0 THEN HeapPush(m.os, order_queue, h) ELSE order_queue
  IN [os |-> m.os,
      buy_queue |-> IF buying THEN oq ELSE m.queue,
      sell_queue |-> IF buying THEN m.queue ELSE oq,
      trades |-> m.trades, skipped |-> m.skipped]

\* Book.add_market_order(order): the order's own queue is not touched.
AddMarketOrder(b, h) ==
  LET buying == b.os[h].order_side = "BUY"
      queue == IF buying THEN b.sell_queue ELSE b.buy_queue
      m == IF queue # <<>>
           THEN MarketLoop(b.os, queue, h, queue[1], NoTrades)
           ELSE [os |-> b.os, queue |-> queue, trades |-> <<>>, skipped |-> <<>>]
  IN [os |-> m.os,
      buy_queue |-> IF buying THEN b.buy_queue ELSE m.queue,
      sell_queue |-> IF buying THEN m.queue ELSE b.sell_queue,
      trades |-> m.trades, skipped |-> m.skipped]

\* Book.add_order: constructs the Order (a new object, handle Len(os) + 1)
\* and runs it as a limit or a market order. order is the new handle.
AddOrder(b, order_id, order_type, order_side, quantity, price) ==
  LET h == Len(b.os) + 1
      b1 == [b EXCEPT !.os = Append(b.os, Order(order_id, order_type, order_side, quantity, price))]
      r == IF order_type = "LIMIT" THEN AddLimitOrder(b1, h) ELSE AddMarketOrder(b1, h)
  IN [os |-> r.os, buy_queue |-> r.buy_queue, sell_queue |-> r.sell_queue,
      trades |-> r.trades, skipped |-> r.skipped, order |-> h]

\* Mutant of DeleteOrder: the deleted order is also marked with order_id -1.
DeleteOrderMarksId(b, h) == [b EXCEPT !.os[h].quantity = 0, !.os[h].order_id = -1]

\* Mutant of DeleteOrder: the deleted order is taken out of its queue.
DeleteOrderRemoves(b, h) ==
  [os |-> [b.os EXCEPT ![h].quantity = 0],
   buy_queue |-> SelectSeq(b.buy_queue, LAMBDA e : e # h),
   sell_queue |-> SelectSeq(b.sell_queue, LAMBDA e : e # h)]

\* Book.delete_order(order): order.quantity = 0, nothing else.
DeleteOrder(b, h) == [b EXCEPT !.os[h].quantity = 0]

\* Mutant of ModifyOrder: the order is given the new price and quantity where
\* it is.
ModifyOrderInPlace(b, h, quantity, price) ==
  [os |-> [b.os EXCEPT ![h].price = price, ![h].quantity = quantity],
   buy_queue |-> b.buy_queue, sell_queue |-> b.sell_queue,
   trades |-> <<>>, skipped |-> <<>>, order |-> h]

\* Book.modify_order(order, quantity, price): the order gives its order_id
\* to the replacement and takes -1, is deleted, and the replacement goes
\* through add_order.
ModifyOrder(b, h, quantity, price) ==
  LET new_order_id == b.os[h].order_id
      b1 == [b EXCEPT !.os[h].order_id = -1]
      b2 == DeleteOrder(b1, h)
  IN AddOrder(b2, new_order_id, b2.os[h].order_type, b2.os[h].order_side, quantity, price)

\* The row f"{el.quantity} @ {el.price:.2f} ({el.order_id})" of Book.__repr__;
\* el is the entry the row was made of.
Row(os, el) ==
  [quantity |-> os[el].quantity, price |-> os[el].price,
   order_id |-> os[el].order_id, el |-> el]

\* A blank row, " " * col_width.
BlankRow == [quantity |-> 0, price |-> 0, order_id |-> 0, el |-> 0]

\* Mutant of ColumnLoop: deleted entries are given a row as well.
RECURSIVE ColumnLoopKeepsDeleted(_, _, _)
ColumnLoopKeepsDeleted(os, queue_copy, column) ==
  IF queue_copy # <<>>
  THEN ColumnLoopKeepsDeleted(os, HeapPop(os, queue_copy),
                              Append(column, Row(os, queue_copy[1])))
  ELSE [queue |-> queue_copy, column |-> column]

\* The column loops of Book.__repr__: heappop the copy of the queue until
\* it is empty, a row for every entry of quantity > 0.
RECURSIVE ColumnLoop(_, _, _)
ColumnLoop(os, queue_copy, column) ==
  IF queue_copy # <<>>
  THEN LET el == queue_copy[1]
       IN ColumnLoop(os, HeapPop(os, queue_copy),
                     IF os[el].quantity <= 0 THEN column
                     ELSE Append(column, Row(os, el)))
  ELSE [queue |-> queue_copy, column |-> column]

\* "Add blank rows where needed": the shorter column is filled up to n rows.
Pad(column, n) ==
  column \o [i \in 1..(n - Len(column)) |-> BlankRow]

\* zip(buy_column, sell_column)
Zip(buy_column, sell_column) ==
  [i \in 1..Len(buy_column) |-> <<buy_column[i], sell_column[i]>>]

\* Mutant of Repr: the columns are popped off the queues themselves.
ReprNoCopy(b) ==
  LET buy == ColumnLoop(b.os, b.buy_queue, <<>>)
      sell == ColumnLoop(b.os, b.sell_queue, <<>>)
      n == IF Len(buy.column) > Len(sell.column)
           THEN Len(buy.column) ELSE Len(sell.column)
  IN [os |-> b.os, buy_queue |-> buy.queue, sell_queue |-> sell.queue,
      table |-> Zip(Pad(buy.column, n), Pad(sell.column, n))]

\* Book.__repr__: the loops run on copy.deepcopy of the queues, so the
\* book keeps its queues and its orders; table is the body of the table.
Repr(b) ==
  LET buy == ColumnLoop(b.os, b.buy_queue, <<>>)
      sell == ColumnLoop(b.os, b.sell_queue, <<>>)
      n == IF Len(buy.column) > Len(sell.column)
           THEN Len(buy.column) ELSE Len(sell.column)
  IN [os |-> b.os, buy_queue |-> b.buy_queue, sell_queue |-> b.sell_queue,
      table |-> Zip(Pad(buy.column, n), Pad(sell.column, n))]

\* ------------------------------------------------------------ engine.py
\* The book of the one stock, as the record the book operators work on.
Book == [os |-> orders, buy_queue |-> buy_queue, sell_queue |-> sell_queue]

\* orders_map[order_id] = order
MapPut(m, order_id, h) ==
  [i \in DOMAIN m \cup {order_id} |-> IF i = order_id THEN h ELSE m[i]]

\* MatchingEngine.is_active_order
IsActiveOrder(order_id) == orders[orders_map[order_id]].quantity # 0

\* What the last command was and what it returned: the message of
\* parse_and_execute (msg), the id the command created or named (id), the
\* order the book call constructed (order), the order a cancel or change
\* looked up (target), the side, price and quantity submitted, the trades
\* the book call returned, the deleted orders it popped, and the quantity
\* the new order had when the book call returned (remaining).
Result(op, msg, id, order, target, side, price, quantity, r) ==
  [op |-> op, msg |-> msg, id |-> id, order |-> order, target |-> target,
   side |-> side, price |-> price, quantity |-> quantity,
   remaining |-> IF order = 0 THEN 0 ELSE r.os[order].quantity,
   trades |-> r.trades, skipped |-> r.skipped]

\* A command that returns an error message without calling the book.
Rejected(msg) ==
  /\ last' = Result("rejected", msg, 0, 0, 0, "BUY", 0, 0, NoTrades)
  /\ UNCHANGED <<uid, orders_map, orders, buy_queue, sell_queue>>

\* The quantity test of the limit, market and change commands.
EmptyOrder(quantity) == quantity = 0

Init ==
  /\ uid = 0
  /\ orders_map = <<>>
  /\ orders = <<>>
  /\ buy_queue = <<>>
  /\ sell_queue = <<>>
  /\ last = Result("init", "HELLO", 0, 0, 0, "BUY", 0, 0, NoTrades)

\* "limit <side> <price> <quantity>"
LimitCmd(side, price, quantity) ==
  IF EmptyOrder(quantity)
  THEN Rejected("EMPTY_ORDER")
  ELSE \E order_id \in {uid + 1} :
       \E r \in {AddOrder(Book, order_id, "LIMIT", side, quantity, price)} :
         /\ uid' = order_id
         /\ orders' = r.os
         /\ buy_queue' = r.buy_queue
         /\ sell_queue' = r.sell_queue
         /\ orders_map' = MapPut(orders_map, order_id, r.order)
         /\ last' = Result("limit", IF r.trades = <<>> THEN "ORDER_CREATED" ELSE "TRADE",
                           order_id, r.order, 0, side, price, quantity, r)

\* "market <side> <quantity>"
MarketCmd(side, quantity) ==
  IF EmptyOrder(quantity)
  THEN Rejected("EMPTY_ORDER")
  ELSE \E order_id \in {uid + 1} :
       \E r \in {AddOrder(Book, order_id, "MARKET", side, quantity, Inf)} :
       \E d \in {DeleteOrder(r, r.order)} :
         /\ uid' = order_id
         /\ orders' = d.os
         /\ buy_queue' = d.buy_queue
         /\ sell_queue' = d.sell_queue
         /\ orders_map' = MapPut(orders_map, order_id, r.order)
         /\ last' = Result("market", IF r.trades = <<>> THEN "NO_LIQUIDITY" ELSE "TRADE",
                           order_id, r.order, 0, side, Inf, quantity, r)

\* "cancel order <id>"
CancelCmd(order_id) ==
  IF order_id \notin DOMAIN orders_map
  THEN Rejected("INEXISTENT_ORDER")
  ELSE IF ~IsActiveOrder(order_id)
  THEN Rejected("INACTIVE_ORDER")
  ELSE \E h \in {orders_map[order_id]} :
       \E d \in {DeleteOrder(Book, h)} :
         /\ orders' = d.os
         /\ buy_queue' = d.buy_queue
         /\ sell_queue' = d.sell_queue
         /\ last' = Result("cancel", "ORDER_CANCELLED", order_id, 0, h,
                           orders[h].order_side, orders[h].price, 0, NoTrades)
         /\ UNCHANGED <<uid, orders_map>>

\* Mutant of ChangeCmd: the order is not tested for being active.
ChangeCmdNoActiveTest(order_id, price, quantity) ==
  IF EmptyOrder(quantity)
  THEN Rejected("EMPTY_ORDER")
  ELSE IF order_id \notin DOMAIN orders_map
  THEN Rejected("INEXISTENT_ORDER")
  ELSE \E h \in {orders_map[order_id]} :
       \E r \in {ModifyOrder(Book, h, quantity, price)} :
         /\ orders' = r.os
         /\ buy_queue' = r.buy_queue
         /\ sell_queue' = r.sell_queue
         /\ orders_map' = MapPut(orders_map, order_id, r.order)
         /\ last' = Result("change", IF r.trades = <<>> THEN "ORDER_CHANGED" ELSE "TRADE",
                           order_id, r.order, h, orders[h].order_side, price, quantity, r)
         /\ UNCHANGED uid

\* "change order <id> <price> <quantity>"
ChangeCmd(order_id, price, quantity) ==
  IF EmptyOrder(quantity)
  THEN Rejected("EMPTY_ORDER")
  ELSE IF order_id \notin DOMAIN orders_map
  THEN Rejected("INEXISTENT_ORDER")
  ELSE IF ~IsActiveOrder(order_id)
  THEN Rejected("INACTIVE_ORDER")
  ELSE \E h \in {orders_map[order_id]} :
       \E r \in {ModifyOrder(Book, h, quantity, price)} :
         /\ orders' = r.os
         /\ buy_queue' = r.buy_queue
         /\ sell_queue' = r.sell_queue
         /\ orders_map' = MapPut(orders_map, order_id, r.order)
         /\ last' = Result("change", IF r.trades = <<>> THEN "ORDER_CHANGED" ELSE "TRADE",
                           order_id, r.order, h, orders[h].order_side, price, quantity, r)
         /\ UNCHANGED uid

\* "print book": what the command returns is the table.
PrintBookCmd ==
  \E r \in {Repr(Book)} :
    /\ orders' = r.os
    /\ buy_queue' = r.buy_queue
    /\ sell_queue' = r.sell_queue
    /\ last' = [op |-> "print", msg |-> "BOOK", id |-> 0, order |-> 0, target |-> 0,
                side |-> "BUY", price |-> 0, quantity |-> 0, remaining |-> 0,
                trades |-> <<>>, skipped |-> <<>>, table |-> r.table]
    /\ UNCHANGED <<uid, orders_map>>

\* The run constructs at most cap Order objects.
InBound(cap) == Len(orders') <= cap

\* Any command, its arguments drawn from the sets above.
Next ==
  \/ \E side \in Sides, price \in Prices, quantity \in Quantities :
       LimitCmd(side, price, quantity) /\ InBound(MaxOrders)
  \/ \E side \in Sides, quantity \in Quantities :
       MarketCmd(side, quantity) /\ InBound(MaxOrders)
  \/ \E order_id \in 1..(uid + 1) : CancelCmd(order_id)
  \/ \E order_id \in 1..(uid + 1), price \in Prices, quantity \in Quantities :
       ChangeCmd(order_id, price, quantity) /\ InBound(MaxOrders)
  \/ PrintBookCmd

Spec == Init /\ [][Next]_vars

\* Longer runs over fewer commands: limit buys, changes and market sells,
\* all of quantity 1.
NextBids ==
  \/ \E price \in Prices : LimitCmd("BUY", price, 1) /\ InBound(MaxBidOrders)
  \/ MarketCmd("SELL", 1) /\ InBound(MaxBidOrders)
  \/ \E order_id \in 1..uid, price \in Prices :
       ChangeCmd(order_id, price, 1) /\ InBound(MaxBidOrders)

SpecBids == Init /\ [][NextBids]_vars

\* ------------------------------------------------------------- claims
\* The handles a queue holds.
Handles(q) == {q[i] : i \in 1..Len(q)}

\* The entries of a queue that are not tombstones.
LiveIn(q) == {h \in Handles(q) : orders[h].quantity > 0}

\* The last command reached the book through add_order.
Submitted == last.op \in {"limit", "market", "change"}

RECURSIVE SumQty(_)
SumQty(trades) ==
  IF trades = <<>> THEN 0 ELSE trades[1].quantity + SumQty(Tail(trades))

\* Trade k of ts comes after a trade that filled resting order p completely.
FilledBefore(ts, k, p) ==
  \E j \in 1..(k - 1) : ts[j].resting = p /\ ts[j].rest1 = 0

\* C1: whenever both queues hold an entry of quantity > 0, every such bid is
\* priced strictly below every such ask (the best bid is below the best ask).
C1_NoCrossedBook ==
  \A b \in LiveIn(buy_queue), a \in LiveIn(sell_queue) :
    orders[b].price < orders[a].price

\* C1 witness: a limit order or a replacement has traded and left live
\* orders on both sides.
C1_Witness ==
  /\ last.op \in {"limit", "change"}
  /\ last.trades # <<>>
  /\ LiveIn(buy_queue) # {}
  /\ LiveIn(sell_queue) # {}

\* C2 (as claimed): the command after a change of a resting order trades
\* with the replacement only after it has filled every live order that
\* rested at the replacement's price on its side when the change returned.
C2_ReplacementRanksBehind ==
  [][LET R == last.order
         ownq == IF last.side = "BUY" THEN buy_queue ELSE sell_queue
         P == {p \in LiveIn(ownq) \ {R} : orders[p].price = orders[R].price}
         ts == last'.trades
     IN (last.op = "change" /\ last.target \in Handles(ownq))
        => \A k \in DOMAIN ts :
             ts[k].resting = R => \A p \in P : FilledBefore(ts, k, p)]_vars

\* C3 (as claimed): the replacement a change creates carries an order_id
\* that is none of the ids 1..uid assigned so far, the modified order's
\* among them.
C3_NewIdentity ==
  last.op = "change" =>
    /\ orders[last.order].order_id # last.id
    /\ orders[last.order].order_id \notin 1..uid

\* C4 (as claimed): a trade is made against a resting order only after
\* every live order of lower order_id resting at the same price in the
\* same queue has been filled completely.
C4_LowestIdFirst ==
  [][LET ts == last'.trades
         oppq == IF last'.side = "BUY" THEN sell_queue ELSE buy_queue
     IN last'.op \in {"limit", "market", "change"}
        => \A k \in DOMAIN ts : \A p \in LiveIn(oppq) :
             (/\ orders[p].price = orders[ts[k].resting].price
              /\ orders[p].order_id < orders[ts[k].resting].order_id)
             => FilledBefore(ts, k, p)]_vars

\* The quantity with which the last submitted order rests in the book.
RestingQuantity ==
  IF last.order \in Handles(buy_queue) \cup Handles(sell_queue)
  THEN orders[last.order].quantity ELSE 0

\* C5 (as claimed, for the submissions of quantity > 0): trades plus resting
\* quantity make up the submitted quantity, for limit, market and change
\* alike.
C5_Conservation ==
  (Submitted /\ last.quantity > 0)
    => SumQty(last.trades) + RestingQuantity = last.quantity

\* C5 (amended): trades plus the quantity the order has left when the book
\* call returns make up the submitted quantity; a limit order (or the
\* replacement of one) rests with exactly that remainder when it is
\* positive and is in no queue otherwise; a market order's remainder is in
\* no queue.
C5_ConservationAmended ==
  Submitted =>
    LET ownq == IF last.side = "BUY" THEN buy_queue ELSE sell_queue
        othq == IF last.side = "BUY" THEN sell_queue ELSE buy_queue
    IN /\ SumQty(last.trades) + last.remaining = last.quantity
       /\ last.order \notin Handles(othq)
       /\ IF last.op = "market"
          THEN last.order \notin Handles(ownq)
          ELSE /\ orders[last.order].quantity = last.remaining
               /\ last.order \in Handles(ownq) <=> last.remaining > 0

\* C5 witness: a market order has traded and has quantity left, which is
\* discarded.
C5_Witness ==
  /\ last.op = "market"
  /\ last.trades # <<>>
  /\ last.remaining > 0

\* C6: every trade carries the price of the resting order it was made
\* against, and its quantity is what the incoming and the resting order
\* each lost.
C6_RestingPrice ==
  \A k \in DOMAIN last.trades :
    LET t == last.trades[k]
    IN /\ t.price = orders[t.resting].price
       /\ t.quantity = t.inc0 - t.inc1
       /\ t.quantity = t.rest0 - t.rest1

\* C6 witness: a limit order has traded at a price that is not its own.
C6_Witness ==
  /\ last.op \in {"limit", "change"}
  /\ \E k \in DOMAIN last.trades : last.trades[k].price # last.price

\* C7: every trade has quantity > 0 and is made against an order that had
\* quantity > 0; an order popped as deleted is in no trade of the call; and
\* a deleted order at the top of the queue a market order of quantity > 0
\* meets is popped without a trade.
C7_TombstoneNoTrade ==
  [][LET t == last'
         oppq == IF t.side = "BUY" THEN sell_queue ELSE buy_queue
         oppq1 == IF t.side = "BUY" THEN sell_queue' ELSE buy_queue'
     IN /\ \A k \in DOMAIN t.trades :
             /\ t.trades[k].quantity > 0
             /\ t.trades[k].rest0 > 0
             /\ orders[t.trades[k].resting].quantity > 0
             /\ \A j \in DOMAIN t.skipped : t.skipped[j] # t.trades[k].resting
        /\ (t.op = "market" /\ t.quantity > 0 /\ oppq # <<>>
            /\ orders[oppq[1]].quantity = 0)
           => /\ \E j \in DOMAIN t.skipped : t.skipped[j] = oppq[1]
              /\ oppq[1] \notin Handles(oppq1)]_vars

\* C7 witness: a market order has popped a deleted order and then traded.
C7_Witness ==
  /\ last.op = "market"
  /\ last.skipped # <<>>
  /\ last.trades # <<>>

\* C8: a market command leaves the queue of the order's own side as it was
\* and the market order in neither queue, whatever quantity it has left;
\* no queue ever holds a market order.
C8_MarketNeverRests ==
  [][last'.op = "market"
     => /\ (IF last'.side = "BUY" THEN buy_queue' = buy_queue
                                  ELSE sell_queue' = sell_queue)
        /\ last'.order \notin Handles(buy_queue') \cup Handles(sell_queue')
        /\ \A h \in Handles(buy_queue') \cup Handles(sell_queue') :
             orders'[h].order_type = "LIMIT"]_vars

\* C8 witness: a market order found orders resting on its own side and
\* returned with quantity left.
C8_Witness ==
  /\ last.op = "market"
  /\ last.remaining > 0
  /\ (IF last.side = "BUY" THEN buy_queue ELSE sell_queue) # <<>>

\* C9: delete_order on an order of quantity 0 changes neither the order nor
\* a queue, and a second delete_order after a first changes nothing more.
C9_CancelIdempotent ==
  \A h \in 1..Len(orders) :
    LET d == DeleteOrder(Book, h)
    IN /\ orders[h].quantity = 0 => d = Book
       /\ DeleteOrder(d, h) = d
       /\ d.os[h].quantity = 0

\* C9 witness: the engine has called delete_order on a market order that
\* matching had already brought to quantity 0, and a cancelled order is
\* still in a queue.
C9_Witness ==
  /\ last.op = "market"
  /\ last.remaining = 0
  /\ \E h \in Handles(buy_queue) \cup Handles(sell_queue) : orders[h].quantity = 0

\* C10 (as claimed): a limit, market or change command of quantity <= 0
\* returns the empty-order error and changes neither uid, orders_map, an
\* order nor a queue.
C10_NonPositiveRejected ==
  [][\A quantity \in {q \in Quantities : q <= 0} :
       (\/ \E side \in Sides, price \in Prices : LimitCmd(side, price, quantity)
        \/ \E side \in Sides : MarketCmd(side, quantity)
        \/ \E order_id \in 1..(uid + 1), price \in Prices :
             ChangeCmd(order_id, price, quantity))
       => /\ last'.msg = "EMPTY_ORDER"
          /\ UNCHANGED <<uid, orders_map, orders, buy_queue, sell_queue>>]_vars

\* C11: a cancel or change command naming an id that is not in orders_map,
\* or an order whose quantity is 0, is rejected and changes neither uid,
\* orders_map, an order nor a queue.
C11_RejectedChangesNothing ==
  [][\A order_id \in 1..(uid + 1) :
       (order_id \notin DOMAIN orders_map \/ ~IsActiveOrder(order_id))
       => ((\/ CancelCmd(order_id)
            \/ \E price \in Prices, quantity \in Quantities :
                 ChangeCmd(order_id, price, quantity))
           => /\ last'.op = "rejected"
              /\ UNCHANGED <<uid, orders_map, orders, buy_queue, sell_queue>>)]_vars

\* C11 witness: a command was rejected for an inactive order while a
\* cancelled order is still in a queue and a live one rests.
C11_Witness ==
  /\ last.msg = "INACTIVE_ORDER"
  /\ \E h \in Handles(buy_queue) \cup Handles(sell_queue) : orders[h].quantity = 0
  /\ LiveIn(buy_queue) \cup LiveIn(sell_queue) # {}

\* The rows of one side of a rendered table, blank rows left out.
Column(table, side) ==
  SelectSeq([i \in 1..Len(table) |-> table[i][IF side = "BUY" THEN 1 ELSE 2]],
            LAMBDA row : row # BlankRow)

\* The rows of column are the entries of queue that have quantity > 0, one
\* row each with the entry's quantity, price and order_id.
RowsAreLive(column, queue) ==
  /\ Len(column) = Cardinality(LiveIn(queue))
  /\ {column[i].el : i \in 1..Len(column)} = LiveIn(queue)
  /\ \A i \in 1..Len(column) :
       /\ column[i] = Row(orders, column[i].el)
       /\ column[i].quantity > 0

\* C12: "print book" leaves both queues and every order as they were, and
\* each side of the table has exactly one row per entry of quantity > 0 of
\* that side's queue, bids by descending and asks by ascending price.
C12_RenderReadOnly ==
  [][last'.op = "print"
     => LET buy_column == Column(last'.table, "BUY")
            sell_column == Column(last'.table, "SELL")
        IN /\ UNCHANGED <<orders, buy_queue, sell_queue>>
           /\ RowsAreLive(buy_column, buy_queue)
           /\ RowsAreLive(sell_column, sell_queue)
           /\ \A i, j \in 1..Len(buy_column) :
                i < j => buy_column[i].price >= buy_column[j].price
           /\ \A i, j \in 1..Len(sell_column) :
                i < j => sell_column[i].price <= sell_column[j].price]_vars

\* C12 witness: a book was rendered that holds a deleted entry and two
\* live entries of different prices on one side.
C12_Witness ==
  /\ last.op = "print"
  /\ \E h \in Handles(buy_queue) \cup Handles(sell_queue) : orders[h].quantity = 0
  /\ \E q \in {buy_queue, sell_queue} :
       \E a, b \in LiveIn(q) : orders[a].price # orders[b].price

\* The fields of an order other than its quantity.
Fixed(o) ==
  [order_id |-> o.order_id, order_type |-> o.order_type,
   order_side |-> o.order_side, price |-> o.price, stock |-> o.stock]

\* C13 (as claimed): no command changes a field other than quantity of an
\* order that exists: order_id, order_type, order_side, price and stock
\* stay what they were at creation.
C13_OnlyQuantityChanges ==
  [][\A h \in 1..Len(orders) : Fixed(orders'[h]) = Fixed(orders[h])]_vars

\* C14: no command changes the price of an order that exists, in a queue or
\* not; a change puts its price on an order constructed by the command,
\* which is not the order it modifies.
C14_PriceFrozen ==
  [][/\ \A h \in 1..Len(orders) : orders'[h].price = orders[h].price
     /\ last'.op = "change"
        => /\ last'.order \notin 1..Len(orders)
           /\ last'.order # last'.target
           /\ orders'[last'.order].price = last'.price]_vars

\* C14 witness: an order resting in a queue was changed to another price,
\* and is still in the queue.
C14_Witness ==
  /\ last.op = "change"
  /\ last.target \in Handles(buy_queue) \cup Handles(sell_queue)
  /\ orders[last.target].price # last.price

\* C15 (as claimed): when a limit order of quantity > 0, or the replacement
\* a change submits, comes to rest, the top of the opposite queue is not a
\* deleted order.
C15_NoTombstoneOnTop ==
  (last.op \in {"limit", "change"} /\ last.remaining > 0)
    => LET oppq == IF last.side = "BUY" THEN sell_queue ELSE buy_queue
       IN oppq = <<>> \/ orders[oppq[1]].quantity # 0

\* C15 (amended): limit matching pops a deleted order without a trade
\* exactly when it is at the top of the opposite queue with a price the
\* incoming order crosses; a deleted top order whose price does not cross
\* ends the matching and stays where it is. When the order comes to rest,
\* the opposite queue is empty or its top, deleted or not, has a price the
\* order does not cross.
C15_TombstoneOnTopAmended ==
  [][LET t == last'
         oppq == IF t.side = "BUY" THEN sell_queue ELSE buy_queue
         oppq1 == IF t.side = "BUY" THEN sell_queue' ELSE buy_queue'
     IN (t.op \in {"limit", "change"} /\ t.quantity > 0)
        => /\ \A j \in DOMAIN t.skipped :
                /\ orders[t.skipped[j]].quantity = 0
                /\ Compare(t.side, t.price, orders[t.skipped[j]].price)
                /\ t.skipped[j] \notin Handles(oppq1)
                /\ \A k \in DOMAIN t.trades : t.trades[k].resting # t.skipped[j]
           /\ (oppq # <<>> /\ orders[oppq[1]].quantity = 0)
              => IF Compare(t.side, t.price, orders[oppq[1]].price)
                 THEN /\ \E j \in DOMAIN t.skipped : t.skipped[j] = oppq[1]
                      /\ oppq[1] \notin Handles(oppq1)
                 ELSE /\ oppq1 = oppq
                      /\ t.trades = <<>>
                      /\ t.remaining = t.quantity
           /\ t.remaining > 0
              => \/ oppq1 = <<>>
                 \/ ~Compare(t.side, t.price, orders'[oppq1[1]].price)]_vars

\* C15 witness: a limit order popped a deleted order whose price it
\* crossed, stopped at a deleted order whose price it did not cross, and
\* rests.
C15_Witness ==
  /\ last.op = "limit"
  /\ last.skipped # <<>>
  /\ last.remaining > 0
  /\ LET oppq == IF last.side = "BUY" THEN sell_queue ELSE buy_queue
     IN oppq # <<>> /\ orders[oppq[1]].quantity = 0

\* C16: a cancel command sets the quantity of the order it names to 0 and
\* changes nothing else, so both queues hold the same entries at the same
\* positions and the cancelled order is still among them; and an entry
\* leaves a queue only in a limit, market or change command whose matching
\* popped it, as a deleted order or as the order of a trade that filled it.
C16_CancelKeepsEntry ==
  [][/\ last'.op = "cancel"
        => /\ orders' = [orders EXCEPT ![last'.target].quantity = 0]
           /\ UNCHANGED <<buy_queue, sell_queue, uid, orders_map>>
     /\ \A h \in (Handles(buy_queue) \ Handles(buy_queue'))
                 \cup (Handles(sell_queue) \ Handles(sell_queue')) :
          /\ last'.op \in {"limit", "market", "change"}
          /\ \/ \E j \in DOMAIN last'.skipped : last'.skipped[j] = h
             \/ \E k \in DOMAIN last'.trades :
                  last'.trades[k].resting = h /\ last'.trades[k].rest1 = 0]_vars

\* C16 witness: an order was cancelled that rests in a queue, not at its
\* top.
C16_Witness ==
  /\ last.op = "cancel"
  /\ \E q \in {buy_queue, sell_queue} :
       \E i \in 2..Len(q) : q[i] = last.target

\* C17: when a limit command, or a change (which resubmits a limit order),
\* returns, the submitted order is in the queue of its own side exactly
\* when it has quantity > 0 left, and then once, as the one new entry of
\* that queue; with nothing left it is in neither queue and its own
\* side's queue is as it was; it is never in the opposite queue.
C17_RestsIffRemaining ==
  [][LET t == last'
         ownq == IF t.side = "BUY" THEN buy_queue ELSE sell_queue
         ownq1 == IF t.side = "BUY" THEN buy_queue' ELSE sell_queue'
         othq1 == IF t.side = "BUY" THEN sell_queue' ELSE buy_queue'
     IN t.op \in {"limit", "change"}
        => /\ orders'[t.order].order_type = "LIMIT"
           /\ t.order \in Handles(ownq1) <=> t.remaining > 0
           /\ t.order \notin Handles(othq1)
           /\ IF t.remaining > 0
              THEN /\ Len(ownq1) = Len(ownq) + 1
                   /\ Handles(ownq1) = Handles(ownq) \cup {t.order}
                   /\ orders'[t.order].quantity = t.remaining
              ELSE ownq1 = ownq]_vars

\* C17 witness: a limit order traded, was not filled, and rests.
C17_Witness ==
  /\ last.op = "limit"
  /\ last.trades # <<>>
  /\ last.remaining > 0
  /\ last.order \in Handles(IF last.side = "BUY" THEN buy_queue ELSE sell_queue)

\* The book with no order.
EmptyBook == [os |-> <<>>, buy_queue |-> <<>>, sell_queue |-> <<>>]

\* Scenario A: sell limit 100 at 10 (id 1), then buy limit 100 at 10 (id 2),
\* gives one trade of 100 at 10 and leaves both queues empty.
ScenarioA ==
  LET r1 == AddOrder(EmptyBook, 1, "LIMIT", "SELL", 100, 10)
      b1 == [os |-> r1.os, buy_queue |-> r1.buy_queue, sell_queue |-> r1.sell_queue]
      r2 == AddOrder(b1, 2, "LIMIT", "BUY", 100, 10)
  IN /\ r1.trades = <<>>
     /\ r1.sell_queue = <<r1.order>>
     /\ Len(r2.trades) = 1
     /\ r2.trades[1].quantity = 100
     /\ r2.trades[1].price = 10
     /\ r2.buy_queue = <<>>
     /\ r2.sell_queue = <<>>

\* C18: every trade of a limit buy at price p has price <= p and every
\* trade of a limit sell at price p has price >= p; a limit order of
\* quantity > 0 whose price equals the best price among the live orders of
\* the opposite queue trades, first at that price; and scenario A comes
\* out as stated.
C18_TradesAcrossLimit ==
  [][LET t == last'
         oppq == IF t.side = "BUY" THEN sell_queue ELSE buy_queue
         best == {a \in LiveIn(oppq) :
                   \A b \in LiveIn(oppq) :
                     IF t.side = "BUY" THEN orders[a].price <= orders[b].price
                                       ELSE orders[a].price >= orders[b].price}
     IN /\ t.op \in {"limit", "change"}
           => /\ \A k \in DOMAIN t.trades :
                   IF t.side = "BUY" THEN t.trades[k].price <= t.price
                                     ELSE t.trades[k].price >= t.price
              /\ \A a \in best :
                   (t.quantity > 0 /\ orders[a].price = t.price)
                   => /\ t.trades # <<>>
                      /\ t.trades[1].price = t.price
        /\ ScenarioA]_vars

\* C18 witness: a limit order met a live order at exactly its price and
\* the two filled each other, leaving both queues empty.
C18_Witness ==
  /\ last.op = "limit"
  /\ Len(last.trades) = 1
  /\ last.trades[1].price = last.price
  /\ last.trades[1].quantity = last.quantity
  /\ buy_queue = <<>>
  /\ sell_queue = <<>>

\* C19: the trades of one matching call are in the order of the opposite
\* side's priority: their prices never fall for an incoming buy and never
\* rise for an incoming sell, and every trade is made against an order
\* whose price is at least as good as that of every order of the opposite
\* queue that has quantity > 0 at that point (those live before the call
\* but for the ones earlier trades of the call have filled).
C19_BestPriceFirst ==
  [][LET t == last'
         ts == t.trades
         oppq == IF t.side = "BUY" THEN sell_queue ELSE buy_queue
     IN t.op \in {"limit", "market", "change"}
        => /\ \A j, k \in DOMAIN ts :
                j < k => IF t.side = "BUY" THEN ts[j].price <= ts[k].price
                                           ELSE ts[j].price >= ts[k].price
           /\ \A k \in DOMAIN ts : \A p \in LiveIn(oppq) :
                \/ FilledBefore(ts, k, p)
                \/ IF t.side = "BUY"
                   THEN orders[ts[k].resting].price <= orders[p].price
                   ELSE orders[ts[k].resting].price >= orders[p].price]_vars

\* C19 witness: one call made two trades at different prices.
C19_Witness ==
  /\ Submitted
  /\ \E j, k \in DOMAIN last.trades : last.trades[j].price # last.trades[k].price

\* C20 (as claimed): when a market command's add_market_order has returned,
\* the order has quantity 0 left or the opposite queue holds no entry.
C20_FilledOrExhausted ==
  last.op = "market"
    => \/ last.remaining = 0
       \/ (IF last.side = "BUY" THEN sell_queue ELSE buy_queue) = <<>>

\* C20 for the market orders of quantity > 0 (the quantities the engine is
\* meant to let through): these are filled or exhaust the opposite queue.
C20_FilledOrExhaustedPositive ==
  (last.op = "market" /\ last.quantity > 0)
    => \/ last.remaining = 0
       \/ (IF last.side = "BUY" THEN sell_queue ELSE buy_queue) = <<>>

\* No entry of q ranks before its parent under Order.__lt__ (the entry at
\* Python position i has its parent at position (i - 1) // 2).
IsHeap(q) ==
  \A i \in 1..(Len(q) - 1) :
    ~Lt(orders[At(q, i)], orders[At(q, (i - 1) \div 2)])

\* C21 (as claimed): in every reachable state buy_queue and sell_queue are
\* heaps under Order.__lt__, deleted entries included.
C21_QueuesAreHeaps ==
  IsHeap(buy_queue) /\ IsHeap(sell_queue)

\* C22: after every command buy_queue holds only BUY limit orders and
\* sell_queue only SELL limit orders, and no comparison heapq makes in the
\* command raises: not in the heappops matching does on the opposite queue,
\* not in the heappush of the order onto its own queue, not in the heappops
\* print book does on the copies of both queues. (Order.__lt__ reads
\* order_side, price and order_id, which matching does not write, so the
\* comparisons are taken on the orders as the command leaves them.)
C22_SameSideQueues ==
  [][LET t == last'
         ownq == IF t.side = "BUY" THEN buy_queue ELSE sell_queue
         oppq == IF t.side = "BUY" THEN sell_queue ELSE buy_queue
         oppq1 == IF t.side = "BUY" THEN sell_queue' ELSE buy_queue'
     IN /\ \A h \in Handles(buy_queue') :
             orders'[h].order_side = "BUY" /\ orders'[h].order_type = "LIMIT"
        /\ \A h \in Handles(sell_queue') :
             orders'[h].order_side = "SELL" /\ orders'[h].order_type = "LIMIT"
        /\ t.op \in {"limit", "market", "change"}
           => /\ Len(oppq1) <= Len(oppq)
              /\ ~PopsRaise(orders', oppq, Len(oppq) - Len(oppq1))
              /\ (t.op # "market" /\ t.remaining > 0)
                 => ~HeapPushRaises(orders', ownq, t.order)
        /\ t.op = "print"
           => /\ ~PopsRaise(orders, buy_queue, Len(buy_queue))
              /\ ~PopsRaise(orders, sell_queue, Len(sell_queue))]_vars

\* C22 witness: both queues hold entries, and the last order was pushed
\* onto a queue that held one already, so that it was compared.
C22_Witness ==
  /\ last.op \in {"limit", "change"}
  /\ buy_queue # <<>>
  /\ sell_queue # <<>>
  /\ LET ownq == IF last.side = "BUY" THEN buy_queue ELSE sell_queue
     IN last.order \in Handles(ownq) /\ Len(ownq) >= 2

\* C23: after every command every entry of either queue has quantity >= 0;
\* every trade leaves the incoming order and the resting order it was made
\* against with quantity >= 0; and an entry a command adds to a queue has
\* quantity > 0.
C23_QueuedQuantityNonNegative ==
  [][/\ \A h \in Handles(buy_queue') \cup Handles(sell_queue') :
          orders'[h].quantity >= 0
     /\ \A k \in DOMAIN last'.trades :
          /\ last'.trades[k].inc1 >= 0
          /\ last'.trades[k].rest1 >= 0
     /\ \A h \in (Handles(buy_queue') \ Handles(buy_queue))
                 \cup (Handles(sell_queue') \ Handles(sell_queue)) :
          orders'[h].quantity > 0]_vars

\* C23 witness: a trade filled the incoming order out of a larger resting
\* order, which stays in its queue with what is left.
C23_Witness ==
  /\ Submitted
  /\ \E k \in DOMAIN last.trades :
       /\ last.trades[k].rest1 > 0
       /\ last.trades[k].inc1 = 0
       /\ last.trades[k].resting \in Handles(buy_queue) \cup Handles(sell_queue)

\* The iterations the matching loop of the last command ran: every
\* iteration either records one trade or ignores one deleted order.
Iterations(t) == Len(t.trades) + Len(t.skipped)

\* C24: every limit, market and change command returns, and its matching
\* loop ran at most (entries of the opposite queue + 1) iterations, each of
\* which popped one entry of the opposite queue (the deleted order it
\* ignored or the order its trade filled) or, popping nothing, brought the
\* incoming order to quantity 0 and was the last.
C24_LoopBounded ==
  [][LET t == last'
         ts == t.trades
         oppq == IF t.side = "BUY" THEN sell_queue ELSE buy_queue
         oppq1 == IF t.side = "BUY" THEN sell_queue' ELSE buy_queue'
         popped == Handles(oppq) \ Handles(oppq1)
         partial == {k \in DOMAIN ts : ts[k].rest1 > 0}
     IN t.op \in {"limit", "market", "change"}
        => /\ Iterations(t) <= Len(oppq) + 1
           /\ Iterations(t) = (Len(oppq) - Len(oppq1)) + Cardinality(partial)
           /\ Cardinality(popped) = Len(oppq) - Len(oppq1)
           /\ popped = {t.skipped[j] : j \in DOMAIN t.skipped}
                          \cup {ts[k].resting : k \in DOMAIN ts \ partial}
           /\ \A k \in partial :
                /\ k = Len(ts)
                /\ ts[k].inc1 = 0
                /\ ts[k].resting \in Handles(oppq1)]_vars

\* C24 witness: a matching loop ran two iterations or more: it ignored a
\* deleted order, then filled the incoming order out of a larger one, which
\* it did not pop.
C24_Witness ==
  /\ Submitted
  /\ last.skipped # <<>>
  /\ Iterations(last) >= 2
  /\ \E k \in DOMAIN last.trades :
       /\ last.trades[k].rest1 > 0
       /\ last.trades[k].resting
            \in Handles(IF last.side = "BUY" THEN sell_queue ELSE buy_queue)

====
